---- MODULE Spec2Model ----
(***************************************************************************)
(* Model of appstats types.go: the time bucketer (roundTime, PartKey,      *)
(* FullKey), the stack reconstructor (rpcStat.Stack), the lock/wait-group  *)
(* discipline of requestStats and the sort.Interface comparators.          *)
(* Strings are sequences of one-character strings.                         *)
(***************************************************************************)
EXTENDS Integers, Sequences, FiniteSets, TLC

VARIABLES
    Start, partKey, fullKey, bucket, shift, bucketShift,   \* time bucketer
    StackData, trace, spc, result,                         \* stack reconstructor
    RPCStats, lock, wg, wpc, wtmp, mpc, observed,          \* requestStats appends
    reqs, reqsIn, rsorts,                                  \* allrequestStats
    stats, statsIn, ssorts, sdesc                          \* statsByName / reverse

timeVars  == <<Start, partKey, fullKey, bucket, shift, bucketShift>>
stackVars == <<StackData, trace, spc, result>>
concVars  == <<RPCStats, lock, wg, wpc, wtmp, mpc, observed>>
reqVars   == <<reqs, reqsIn, rsorts>>
statVars  == <<stats, statsIn, ssorts, sdesc>>
vars == <<timeVars, stackVars, concVars, reqVars, statVars>>

\* ------------------------------------------------------------------ bounds
MaxBucketIdx == 4
MaxCycles == 2
MaxSec == 1
MaxLines == 10
MaxArbLen == 2
NumWriters == 3
MaxReqs == 4
MaxT == 3
MaxDur == 2
MaxStats == 4
MaxCount == 2
MaxSorts == 2

\* ------------------------------------------------------- generic helpers
Range(s) == {s[i] : i \in 1..Len(s)}

Max2(a, b) == IF a >= b THEN a ELSE b

\* all sequences over S of length <= n
RECURSIVE SeqsUpTo(_, _)
SeqsUpTo(S, n) ==
    IF n = 0 THEN {<<>>}
    ELSE LET shorter == SeqsUpTo(S, n - 1)
         IN  shorter \cup {Append(s, c) : s \in {t \in shorter : Len(t) = n - 1}, c \in S}

\* ------------------------------------------------------------- constants
distance == 100
modulus == 1000

keyPrefix == <<"_", "_", "a", "p", "p", "s", "t", "a", "t", "s", "_", "_", ":">>
partSuffix == <<":", "p", "a", "r", "t">>
fullSuffix == <<":", "f", "u", "l", "l">>

DigitChars == <<"0", "1", "2", "3", "4", "5", "6", "7", "8", "9">>
IsDigit(c) == \E d \in 1..10 : DigitChars[d] = c
DigitVal(c) == (CHOOSE d \in 1..10 : DigitChars[d] = c) - 1

\* ---------------------------------------------------------- time bucketer
\* fmt's %d for a non-negative integer: its decimal digits, most significant first
RECURSIVE FmtDecimal(_)
FmtDecimal(n) ==
    IF n < 10 THEN <<DigitChars[n + 1]>>
    ELSE Append(FmtDecimal(n \div 10), DigitChars[(n % 10) + 1])

RECURSIVE ZeroPad(_, _)
ZeroPad(ds, width) == IF Len(ds) >= width THEN ds ELSE ZeroPad(<<"0">> \o ds, width)

\* fmt verb %06d: zero padded to a minimum width of 6, never truncated
\* (variant: %d, no padding)
SprintfNoPad(n) == FmtDecimal(n)
Sprintf06d(n) == ZeroPad(FmtDecimal(n), 6)

\* keyPart = keyPrefix + "%06d:part", keyFull = keyPrefix + "%06d:full"
keyPart(t) == keyPrefix \o Sprintf06d(t) \o partSuffix
keyFull(t) == keyPrefix \o Sprintf06d(t) \o fullSuffix

\* (variants: the modulus step left out; the scaling back by distance left out)
roundTimeNoMod(i) == ((i \div 1000) \div distance) * distance
roundTimeNoScale(i) == ((i \div 1000) \div distance) % modulus
roundTime(i) == (((i \div 1000) \div distance) % modulus) * distance

\* time.Time.Nanosecond(): the nanosecond offset within the second
Nanosecond(t) == t.nsec

PartKey(r) == keyPart(roundTime(Nanosecond(r)))
FullKey(r) == keyFull(roundTime(Nanosecond(r)))

\* the period of the bucket cycle in nanoseconds, and one bucket's width
CycleNs == modulus * distance * 1000
BucketNs == distance * 1000
NsPerSec == 1000000000

BucketIdx == (0..MaxBucketIdx) \cup ((modulus - 1 - MaxBucketIdx)..(modulus - 1))
Offsets == {0, 1, 999, 1000, BucketNs - 1}
NsecSamples ==
    {c * CycleNs + b * BucketNs + o :
        c \in 0..((NsPerSec \div CycleNs) - 1), b \in BucketIdx, o \in Offsets}

TimeInit ==
    /\ Start \in [sec : 0..MaxSec, nsec : NsecSamples]
    /\ partKey = <<>>
    /\ fullKey = <<>>
    /\ bucket = -1
    /\ shift = 0
    /\ bucketShift = -1

TimeIdle ==
    /\ Start = [sec |-> 0, nsec |-> 0]
    /\ partKey = <<>>
    /\ fullKey = <<>>
    /\ bucket = -1
    /\ shift = 0
    /\ bucketShift = -1

CallPartKey ==
    /\ partKey = <<>>
    /\ partKey' = PartKey(Start)
    /\ UNCHANGED <<Start, fullKey, bucket, shift, bucketShift>>

CallFullKey ==
    /\ fullKey = <<>>
    /\ fullKey' = FullKey(Start)
    /\ UNCHANGED <<Start, partKey, bucket, shift, bucketShift>>

CallRoundTime ==
    /\ bucket = -1
    /\ bucket' = roundTime(Nanosecond(Start))
    /\ UNCHANGED <<Start, partKey, fullKey, shift, bucketShift>>

\* roundTime applied to the start time k whole cycles later
CallRoundTimeShifted ==
    /\ shift = 0
    /\ \E k \in 1..MaxCycles :
        /\ shift' = k
        /\ bucketShift' = roundTime(Nanosecond(Start) + k * CycleNs)
    /\ UNCHANGED <<Start, partKey, fullKey, bucket>>

\* ------------------------------------------------------ stack reconstructor
NL == "\n"
TAB == "\t"
SP == " "
COLON == ":"

\* strings.Split(s, "\n"): k separators give k+1 lines, "" gives one empty line
RECURSIVE Split(_)
Split(s) ==
    IF \A i \in 1..Len(s) : s[i] # NL THEN <<s>>
    ELSE LET i == CHOOSE k \in 1..Len(s) : s[k] = NL /\ \A j \in 1..(k - 1) : s[j] # NL
         IN  <<SubSeq(s, 1, i - 1)>> \o Split(SubSeq(s, i + 1, Len(s)))

\* strings.LastIndex(s, c): 0-based index of the last c, -1 when absent
LastIndex(s, c) ==
    IF \A i \in 1..Len(s) : s[i] # c THEN -1
    ELSE (CHOOSE k \in 1..Len(s) : s[k] = c /\ \A j \in (k + 1)..Len(s) : s[j] # c) - 1

\* the slice expression s[lo:hi] panics unless 0 <= lo <= hi <= len(s)
SliceOK(s, lo, hi) == 0 <= lo /\ lo <= hi /\ hi <= Len(s)
Slice(s, lo, hi) == SubSeq(s, lo + 1, hi)

RECURSIVE DecVal(_)
DecVal(ds) ==
    IF Len(ds) = 0 THEN 0
    ELSE DecVal(SubSeq(ds, 1, Len(ds) - 1)) * 10 + DigitVal(ds[Len(ds)])

\* strconv.Atoi with its error dropped: an optional sign and one or more decimal
\* digits give the number, anything else gives 0 (digit strings here stay far
\* below the range of int, where Atoi saturates instead)
\* (variant: only the first digit is read)
AtoiFirstDigit(s) == IF Len(s) > 0 /\ IsDigit(s[1]) THEN DigitVal(s[1]) ELSE 0
Atoi(s) ==
    LET signed == Len(s) > 0 /\ s[1] \in {"+", "-"}
        body == IF signed THEN SubSeq(s, 2, Len(s)) ELSE s
    IN  IF Len(body) = 0 \/ \E i \in 1..Len(body) : ~IsDigit(body[i]) THEN 0
        ELSE IF signed /\ s[1] = "-" THEN 0 - DecVal(body)
        ELSE DecVal(body)

\* if len(lines) < 7 || len(lines)%2 != 0 { return stack{} }
\* (variant: the parity test left out)
UnusableShortOnly(lines) == Len(lines) < 7
Unusable(lines) == Len(lines) < 7 \/ Len(lines) % 2 # 0

\* lines = lines[1:]; lines = lines[4:]
DropHeader(lines) == SubSeq(SubSeq(lines, 2, Len(lines)), 5, Len(lines) - 1)

\* f.Location = lines[i][1:cidx]; f.Lineno, _ = strconv.Atoi(lines[i][cidx+1:idx])
\* (variant: Lineno from the first digit alone)
FrameFirstDigit(call, loc, idx, cidx) ==
    [Location |-> Slice(loc, 1, cidx), Call |-> call,
     Lineno |-> AtoiFirstDigit(Slice(loc, cidx + 1, idx))]
Frame(call, loc, idx, cidx) ==
    [Location |-> Slice(loc, 1, cidx), Call |-> call,
     Lineno |-> Atoi(Slice(loc, cidx + 1, idx))]

\* the loop over the pairs; i is the 0-based loop index. A slice out of range
\* is a runtime panic: the call returns no stack at all.
\* (variant: break instead of continue at a line without space or colon)
RECURSIVE StackLoopStopAtSkip(_, _, _)
StackLoopStopAtSkip(lines, i, acc) ==
    IF ~(i + 1 < Len(lines)) THEN [panic |-> FALSE, frames |-> acc]
    ELSE LET call == lines[i + 1]
             loc == lines[i + 2]
             idx == LastIndex(loc, SP)
             cidx == LastIndex(loc, COLON)
         IN  IF idx = -1 \/ cidx = -1 THEN [panic |-> FALSE, frames |-> acc]
             ELSE IF ~SliceOK(loc, 1, cidx) \/ ~SliceOK(loc, cidx + 1, idx)
                  THEN [panic |-> TRUE, frames |-> <<>>]
             ELSE StackLoopStopAtSkip(lines, i + 2, Append(acc, Frame(call, loc, idx, cidx)))

RECURSIVE StackLoop(_, _, _)
StackLoop(lines, i, acc) ==
    IF ~(i + 1 < Len(lines)) THEN [panic |-> FALSE, frames |-> acc]
    ELSE LET call == lines[i + 1]
             loc == lines[i + 2]
             idx == LastIndex(loc, SP)
             cidx == LastIndex(loc, COLON)
         IN  IF idx = -1 \/ cidx = -1 THEN StackLoop(lines, i + 2, acc)
             ELSE IF ~SliceOK(loc, 1, cidx) \/ ~SliceOK(loc, cidx + 1, idx)
                  THEN [panic |-> TRUE, frames |-> <<>>]
             ELSE StackLoop(lines, i + 2, Append(acc, Frame(call, loc, idx, cidx)))

Stack(data) ==
    LET lines == Split(data)
    IN  IF Unusable(lines) THEN [panic |-> FALSE, frames |-> <<>>]
        ELSE StackLoop(DropHeader(lines), 0, <<>>)

\* --- the traces fed to Stack(): a sequence of line descriptions, rendered and
\* joined with newlines into StackData
ArbChars == {COLON, SP, "4"}
ArbLines == SeqsUpTo(ArbChars, MaxArbLen)

ExamplePath == <<"f", "o", "o", "/", "b", "a", "r", ".", "g", "o">>
ExampleExtra == <<"+", "0", "x", "1", "a">>
Paths == {ExamplePath, <<"a", COLON, "b", SP, "c">>}
Nums == {[digits |-> <<"4", "2">>, value |-> 42], [digits |-> <<"0", "7">>, value |-> 7]}
Extras == {ExampleExtra, <<>>}

RawLine(text) == [kind |-> "raw", text |-> text]
LocLine(indent, path, num, extra) ==
    [kind |-> "loc", indent |-> indent, path |-> path, num |-> num, extra |-> extra]

LocDescs ==
    {RawLine(t) : t \in ArbLines}
    \cup {LocLine(TAB, p, n, e) : p \in Paths, n \in Nums, e \in Extras}

Render(d) ==
    IF d.kind = "raw" THEN d.text
    ELSE <<d.indent>> \o d.path \o <<COLON>> \o d.num.digits \o <<SP>> \o d.extra

RECURSIVE Join(_)
Join(ls) ==
    IF Len(ls) = 1 THEN ls[1]
    ELSE ls[1] \o <<NL>> \o Join(Tail(ls))

HeadText(v) == IF v = 1 THEN <<"g", SP, "1", COLON>> ELSE <<>>
CallText(v, k) == IF v = 1 THEN <<"f", DigitChars[k + 1]>> ELSE <<"m", COLON, DigitChars[k + 1], SP>>

\* line p (1-based) of a trace of nl lines: five head lines, then call and
\* location lines in turn; in variant 1 a last call line without a location
\* line is the empty string a final newline leaves behind
TraceLine(nl, v, locs, p) ==
    IF p <= 5 THEN RawLine(HeadText(v))
    ELSE IF (p - 5) % 2 = 0 THEN locs[(p - 5) \div 2]
    ELSE IF p = nl /\ v = 1 THEN RawLine(<<>>)
    ELSE RawLine(CallText(v, (p - 4) \div 2))

\* the trace of nl lines in variant v with the given location lines
Trace(nl, v, locs) == [p \in 1..nl |-> TraceLine(nl, v, locs, p)]

NumLocLines(nl) == Max2(nl - 5, 0) \div 2

StackInit ==
    /\ \E nl \in 1..MaxLines, v \in 1..2 :
        \E locs \in [1..NumLocLines(nl) -> LocDescs] :
            trace = Trace(nl, v, locs)
    /\ StackData = Join([p \in 1..Len(trace) |-> Render(trace[p])])
    /\ spc = "new"
    /\ result = [panic |-> FALSE, frames |-> <<>>]

StackIdle ==
    /\ trace = <<>>
    /\ StackData = <<>>
    /\ spc = "new"
    /\ result = [panic |-> FALSE, frames |-> <<>>]

CallStack ==
    /\ spc = "new"
    /\ result' = Stack(StackData)
    /\ spc' = "done"
    /\ UNCHANGED <<StackData, trace>>

\* ------------------------------------------- requestStats: lock and wait group
\* N call sites append one rpcStat each to the same requestStats; the finalizer
\* waits on the wait group before it reads RPCStats.
Writers == 1..NumWriters

ConcInit ==
    /\ RPCStats = <<>>
    /\ lock = 0
    /\ wg = 0
    /\ wpc = [w \in Writers |-> "idle"]
    /\ wtmp = [w \in Writers |-> <<>>]
    /\ mpc = "spawn"
    /\ observed = <<>>

ConcIdle == ConcInit

\* wg.Add(1); go writer()
Spawn(w) ==
    /\ mpc = "spawn"
    /\ wpc[w] = "idle"
    /\ wg' = wg + 1
    /\ wpc' = [wpc EXCEPT ![w] = "ready"]
    /\ UNCHANGED <<RPCStats, lock, wtmp, mpc, observed>>

\* r.lock.Lock()
\* (variant: a lock that excludes nobody)
LockNoExclusion(w) ==
    /\ wpc[w] = "ready"
    /\ lock' = w
    /\ wpc' = [wpc EXCEPT ![w] = "locked"]
    /\ UNCHANGED <<RPCStats, wg, wtmp, mpc, observed>>
Lock(w) ==
    /\ wpc[w] = "ready"
    /\ lock = 0
    /\ lock' = w
    /\ wpc' = [wpc EXCEPT ![w] = "locked"]
    /\ UNCHANGED <<RPCStats, wg, wtmp, mpc, observed>>

\* r.RPCStats = append(r.RPCStats, stat): the read of the slice ...
LoadSlice(w) ==
    /\ wpc[w] = "locked"
    /\ wtmp' = [wtmp EXCEPT ![w] = RPCStats]
    /\ wpc' = [wpc EXCEPT ![w] = "loaded"]
    /\ UNCHANGED <<RPCStats, lock, wg, mpc, observed>>

\* ... and the write of the longer slice
StoreSlice(w) ==
    /\ wpc[w] = "loaded"
    /\ RPCStats' = Append(wtmp[w], w)
    /\ wpc' = [wpc EXCEPT ![w] = "stored"]
    /\ UNCHANGED <<lock, wg, wtmp, mpc, observed>>

\* r.lock.Unlock()
Unlock(w) ==
    /\ wpc[w] = "stored"
    /\ lock' = 0
    /\ wpc' = [wpc EXCEPT ![w] = "unlocked"]
    /\ UNCHANGED <<RPCStats, wg, wtmp, mpc, observed>>

\* r.wg.Done()
Done(w) ==
    /\ wpc[w] = "unlocked"
    /\ wg' = wg - 1
    /\ wpc' = [wpc EXCEPT ![w] = "done"]
    /\ UNCHANGED <<RPCStats, lock, wtmp, mpc, observed>>

\* the finalizer has started every writer and calls r.wg.Wait()
BeginWait ==
    /\ mpc = "spawn"
    /\ \A w \in Writers : wpc[w] # "idle"
    /\ mpc' = "wait"
    /\ UNCHANGED <<RPCStats, lock, wg, wpc, wtmp, observed>>

\* r.wg.Wait() returns once the counter is zero
WaitReturns ==
    /\ mpc = "wait"
    /\ wg = 0
    /\ mpc' = "woken"
    /\ UNCHANGED <<RPCStats, lock, wg, wpc, wtmp, observed>>

\* the finalizer reads the record
ReadCalls ==
    /\ mpc = "woken"
    /\ observed' = RPCStats
    /\ mpc' = "read"
    /\ UNCHANGED <<RPCStats, lock, wg, wpc, wtmp>>

\* --------------------------------------------------------- ordering utilities
\* time.Time.Sub: the difference as a Duration, saturated at the largest and
\* smallest Duration (MaxDur stands for the 64-bit limit, scaled down)
Sub(t, u) ==
    LET d == t - u
    IN  IF d > MaxDur THEN MaxDur
        ELSE IF d < 0 - MaxDur THEN 0 - MaxDur
        ELSE d

\* func (s allrequestStats) Less(i, j int) bool; indices are 1-based here
\* (variant: <= 0 in place of < 0)
ReqLessOrEqual(s, i, j) == Sub(s[i].Start, s[j].Start) <= 0
ReqLess(s, i, j) == Sub(s[i].Start, s[j].Start) < 0

\* func (s statsByName) Less(i, j int) bool
StatLess(s, i, j) == s[i].Count < s[j].Count

\* Swap of both slice types
Swap(s, i, j) == [s EXCEPT ![i] = s[j], ![j] = s[i]]

\* the Less method of the sort.Interface value of the given dynamic type
InterfaceLess(kind, s, i, j) ==
    IF kind = "allrequestStats" THEN ReqLess(s, i, j) ELSE StatLess(s, i, j)

\* func (r reverse) Less(i, j int) bool { return r.Interface.Less(j, i) }
\* (variant: the indices not swapped)
reverseLessUnswapped(kind, s, i, j) == InterfaceLess(kind, s, i, j)
reverseLess(kind, s, i, j) == InterfaceLess(kind, s, j, i)

DataLess(d, s, i, j) ==
    IF d.rev THEN reverseLess(d.kind, s, i, j) ELSE InterfaceLess(d.kind, s, i, j)

\* a stable sort driven by Less and Swap alone: insertion sort, which is what
\* sort.Stable runs on a slice of at most one block
RECURSIVE Sink(_, _, _)
Sink(d, s, j) ==
    IF j > 1 /\ DataLess(d, s, j, j - 1) THEN Sink(d, Swap(s, j, j - 1), j - 1) ELSE s

RECURSIVE InsertionLoop(_, _, _)
InsertionLoop(d, s, i) ==
    IF i > Len(s) THEN s ELSE InsertionLoop(d, Sink(d, s, i), i + 1)

StableSort(d, s) == InsertionLoop(d, s, 2)

ByStart == [kind |-> "allrequestStats", rev |-> FALSE]
ByCount == [kind |-> "statsByName", rev |-> FALSE]
ByCountReversed == [kind |-> "statsByName", rev |-> TRUE]

\* request records in any input order; Path numbers the record's input position
ReqInputs ==
    UNION {{[i \in 1..n |-> [Start |-> st[i], Path |-> i]] : st \in [1..n -> 0..MaxT]}
            : n \in 0..MaxReqs}

ReqInit ==
    /\ reqsIn \in ReqInputs
    /\ reqs = reqsIn
    /\ rsorts = 0

ReqIdle ==
    /\ reqsIn = <<>>
    /\ reqs = <<>>
    /\ rsorts = 0

SortRequests ==
    /\ rsorts < MaxSorts
    /\ reqs' = StableSort(ByStart, reqs)
    /\ rsorts' = rsorts + 1
    /\ UNCHANGED reqsIn

\* aggregated statistics in discovery order; Name numbers the discovery position
StatInputs ==
    UNION {{[i \in 1..n |-> [Name |-> i, Count |-> c[i]]] : c \in [1..n -> 0..MaxCount]}
            : n \in 0..MaxStats}

StatInit ==
    /\ statsIn \in StatInputs
    /\ stats = statsIn
    /\ ssorts = 0
    /\ sdesc = "unsorted"

StatIdle ==
    /\ statsIn = <<>>
    /\ stats = <<>>
    /\ ssorts = 0
    /\ sdesc = "unsorted"

\* sort through statsByName itself: ascending Count
SortStats ==
    /\ ssorts < MaxSorts
    /\ stats' = StableSort(ByCount, stats)
    /\ ssorts' = ssorts + 1
    /\ sdesc' = "ascending"
    /\ UNCHANGED statsIn

\* sort through reverse{statsByName}: descending Count
SortStatsReversed ==
    /\ ssorts < MaxSorts
    /\ stats' = StableSort(ByCountReversed, stats)
    /\ ssorts' = ssorts + 1
    /\ sdesc' = "descending"
    /\ UNCHANGED statsIn

\* ------------------------------------------------------------ specifications
notTime == <<stackVars, concVars, reqVars, statVars>>
notStack == <<timeVars, concVars, reqVars, statVars>>
notConc == <<timeVars, stackVars, reqVars, statVars>>
notReq == <<timeVars, stackVars, concVars, statVars>>
notStat == <<timeVars, stackVars, concVars, reqVars>>

SpecTimeInit == TimeInit /\ StackIdle /\ ConcIdle /\ ReqIdle /\ StatIdle
SpecTimeNext ==
    \/ CallPartKey /\ UNCHANGED notTime
    \/ CallFullKey /\ UNCHANGED notTime
    \/ CallRoundTime /\ UNCHANGED notTime
    \/ CallRoundTimeShifted /\ UNCHANGED notTime
SpecTime == SpecTimeInit /\ [][SpecTimeNext]_vars

SpecStackInit == StackInit /\ TimeIdle /\ ConcIdle /\ ReqIdle /\ StatIdle
SpecStackNext == CallStack /\ UNCHANGED notStack
SpecStack == SpecStackInit /\ [][SpecStackNext]_vars

SpecConcInit == ConcInit /\ TimeIdle /\ StackIdle /\ ReqIdle /\ StatIdle
SpecConcNext ==
    \/ \E w \in Writers : Spawn(w) /\ UNCHANGED notConc
    \/ \E w \in Writers : Lock(w) /\ UNCHANGED notConc
    \/ \E w \in Writers : LoadSlice(w) /\ UNCHANGED notConc
    \/ \E w \in Writers : StoreSlice(w) /\ UNCHANGED notConc
    \/ \E w \in Writers : Unlock(w) /\ UNCHANGED notConc
    \/ \E w \in Writers : Done(w) /\ UNCHANGED notConc
    \/ BeginWait /\ UNCHANGED notConc
    \/ WaitReturns /\ UNCHANGED notConc
    \/ ReadCalls /\ UNCHANGED notConc
SpecConc == SpecConcInit /\ [][SpecConcNext]_vars

SpecReqInit == ReqInit /\ TimeIdle /\ StackIdle /\ ConcIdle /\ StatIdle
SpecReqNext == SortRequests /\ UNCHANGED notReq
SpecReq == SpecReqInit /\ [][SpecReqNext]_vars

SpecStatInit == StatInit /\ TimeIdle /\ StackIdle /\ ConcIdle /\ ReqIdle
SpecStatNext ==
    \/ SortStats /\ UNCHANGED notStat
    \/ SortStatsReversed /\ UNCHANGED notStat
SpecStat == SpecStatInit /\ [][SpecStatNext]_vars

\* ===================================================================== claims
NumLines == Cardinality({i \in 1..Len(StackData) : StackData[i] = NL}) + 1
EmptyStack == [panic |-> FALSE, frames |-> <<>>]
ExampleLoc == LocLine(TAB, ExamplePath, [digits |-> <<"4", "2">>, value |-> 42], ExampleExtra)

\* C1: Stack() never fails: whatever the StackData, the call returns a stack
\* and never raises a runtime panic.
C1_StackNeverPanics == spc = "done" => ~result.panic

\* C2 as stated: a well-formed trace that splits into exactly 9 lines, with the
\* location line "\tfoo/bar.go:42 +0x1a", gives exactly 1 frame with Location
\* "foo/bar.go" and Lineno 42.
C2_NineLinesOneFrame ==
    (/\ spc = "done"
     /\ NumLines = 9
     /\ trace[7] = ExampleLoc
     /\ trace[9].kind = "loc")
    => (/\ ~result.panic
        /\ Len(result.frames) = 1
        /\ result.frames[1].Location = ExamplePath
        /\ result.frames[1].Lineno = 42)

\* C2 amended: a trace of header, 4 internal lines, one call line, the location
\* line "\tfoo/bar.go:42 +0x1a" and one further line (the empty string after a
\* final newline), 8 lines as strings.Split counts them, gives exactly 1 frame
\* with Location "foo/bar.go", Lineno 42 and the call line as Call.
C2_EightLinesOneFrame ==
    (/\ spc = "done"
     /\ NumLines = 8
     /\ trace[7] = ExampleLoc)
    => result = [panic |-> FALSE,
                 frames |-> <<[Location |-> ExamplePath,
                               Call |-> Render(trace[6]),
                               Lineno |-> 42]>>]

C2_Witness ==
    /\ spc = "done"
    /\ NumLines = 8
    /\ trace[7] = ExampleLoc
    /\ trace[8] = RawLine(<<>>)
    /\ Len(result.frames) = 1
    /\ result.frames[1].Lineno = 42

\* C3: StackData that splits into fewer than 7 lines, or into an odd number of
\* lines, gives an empty stack whatever the lines hold.
C3_UnusableGivesEmpty ==
    (spc = "done" /\ (NumLines < 7 \/ NumLines % 2 = 1)) => result = EmptyStack

C3_Witness ==
    /\ spc = "done"
    /\ NumLines = 9
    /\ trace[7].kind = "loc"
    /\ trace[9].kind = "loc"
    /\ result = EmptyStack

\* C4: for every nanosecond-of-second n in 0..999999999 the bucket roundTime(n)
\* lies in 0 <= bucket < modulus*distance (at most 99999) and is a multiple of
\* distance.
C4_BucketInRange ==
    bucket # -1 =>
        /\ 0 <= bucket
        /\ bucket < modulus * distance
        /\ bucket <= 99999
        /\ bucket % distance = 0

C4_Witness ==
    /\ Start.nsec = NsPerSec - 1
    /\ bucket = (modulus - 1) * distance

\* C5: the bucket is periodic with period modulus*distance microseconds:
\* roundTime(n + k * 10^8) = roundTime(n), so a request started whole cycles
\* later gets the same bucket and the same keys.
C5_Periodic ==
    /\ (bucket # -1 /\ shift >= 1) => bucketShift = bucket
    /\ (partKey # <<>> /\ shift >= 1) => keyPart(bucketShift) = partKey
    /\ (fullKey # <<>> /\ shift >= 1) => keyFull(bucketShift) = fullKey

C5_Witness ==
    /\ shift = 1
    /\ Start.nsec = 4 * BucketNs + 999
    /\ bucket = 400
    /\ bucketShift = 400
    /\ partKey # <<>>

\* C6: PartKey() is "__appstats__:" + the bucket as exactly 6 zero-padded
\* decimal digits + ":part", FullKey() the same with ":full"; the bucket is
\* that of the nanosecond-of-second of Start and the keys differ in the suffix
\* alone.
KeyShape(key, suffix) ==
    LET np == Len(keyPrefix)
    IN  /\ Len(key) = np + 6 + Len(suffix)
        /\ SubSeq(key, 1, np) = keyPrefix
        /\ \A i \in (np + 1)..(np + 6) : IsDigit(key[i])
        /\ DecVal(SubSeq(key, np + 1, np + 6)) = roundTime(Start.nsec)
        /\ SubSeq(key, np + 7, Len(key)) = suffix

C6_KeysShareBucket ==
    /\ partKey # <<>> => KeyShape(partKey, partSuffix)
    /\ fullKey # <<>> => KeyShape(fullKey, fullSuffix)
    /\ (partKey # <<>> /\ fullKey # <<>>) =>
        SubSeq(partKey, 1, Len(keyPrefix) + 6) = SubSeq(fullKey, 1, Len(keyPrefix) + 6)
    /\ (partKey # <<>> /\ roundTime(Start.nsec) = 400) =>
        partKey = keyPrefix \o <<"0", "0", "0", "4", "0", "0">> \o partSuffix
    /\ (fullKey # <<>> /\ roundTime(Start.nsec) = 400) =>
        fullKey = keyPrefix \o <<"0", "0", "0", "4", "0", "0">> \o fullSuffix

C6_Witness ==
    /\ Start.sec = 1
    /\ partKey = keyPrefix \o <<"0", "0", "0", "4", "0", "0">> \o partSuffix
    /\ fullKey = keyPrefix \o <<"0", "0", "0", "4", "0", "0">> \o fullSuffix

\* C7: with N writers appending under the lock and registered with the wait
\* group, no append is lost: once all writers are done RPCStats holds exactly
\* the N appends, and a reader that waited first sees all N.
C7_NoLostAppend ==
    /\ (\A w \in Writers : wpc[w] = "done") =>
        (Len(RPCStats) = NumWriters /\ Range(RPCStats) = Writers)
    /\ mpc = "read" =>
        (Len(observed) = NumWriters /\ Range(observed) = Writers)

C7_Witness ==
    /\ mpc = "read"
    /\ Len(observed) = NumWriters
    /\ observed[1] = NumWriters

\* C8: sorting request records with allrequestStats.Less gives non-decreasing
\* Start whatever the input order, keeps records of equal Start in input
\* order, keeps every record, and sorting again changes nothing.
C8_ChronologicalStable ==
    rsorts >= 1 =>
        /\ Len(reqs) = Len(reqsIn)
        /\ Range(reqs) = Range(reqsIn)
        /\ \A i, j \in 1..Len(reqs) :
            i < j => (/\ reqs[i].Start <= reqs[j].Start
                      /\ (reqs[i].Start = reqs[j].Start => reqs[i].Path < reqs[j].Path))
        /\ StableSort(ByStart, reqs) = reqs

C8_Witness ==
    /\ rsorts = 2
    /\ reqs # reqsIn
    /\ \E i, j \in 1..Len(reqs) : i < j /\ reqs[i].Start = reqs[j].Start
    /\ \E i, j \in 1..Len(reqs) : reqs[j].Start - reqs[i].Start > MaxDur

\* C9: statsByName.Less is strictly-smaller Count and reverse.Less is the
\* swapped comparison; equal Counts are not-less both ways under both; sorting
\* through reverse gives descending Count, through statsByName ascending, and
\* entries of equal Count stay in discovery order.
C9_CountOrderAndReverse ==
    /\ \A i, j \in 1..Len(stats) :
        /\ DataLess(ByCount, stats, i, j) <=> stats[i].Count < stats[j].Count
        /\ DataLess(ByCountReversed, stats, i, j) <=> stats[j].Count < stats[i].Count
        /\ stats[i].Count = stats[j].Count =>
            (/\ ~DataLess(ByCount, stats, i, j)
             /\ ~DataLess(ByCount, stats, j, i)
             /\ ~DataLess(ByCountReversed, stats, i, j)
             /\ ~DataLess(ByCountReversed, stats, j, i))
    /\ ssorts >= 1 =>
        /\ Len(stats) = Len(statsIn)
        /\ Range(stats) = Range(statsIn)
        /\ \A i, j \in 1..Len(stats) :
            i < j => (/\ sdesc = "descending" => stats[i].Count >= stats[j].Count
                      /\ sdesc = "ascending" => stats[i].Count <= stats[j].Count
                      /\ (stats[i].Count = stats[j].Count => stats[i].Name < stats[j].Name))

C9_Witness ==
    /\ ssorts = 1
    /\ sdesc = "descending"
    /\ stats # statsIn
    /\ \E i, j \in 1..Len(stats) : i < j /\ stats[i].Count = stats[j].Count
    /\ \E i, j \in 1..Len(stats) : stats[i].Count > stats[j].Count

\* C10: for a trace that passes the line-count guard and whose location lines
\* are <indent><path>:<number><space><extra> or lack a space or a colon, the
\* first 5 lines are dropped and each following pair gives, in trace order, one
\* frame (Call = first line, Location = the path, Lineno = the number) when the
\* location line is of that form, and no frame when it lacks a space or colon.
LacksSpaceOrColon(text) ==
    \/ \A i \in 1..Len(text) : text[i] # SP
    \/ \A i \in 1..Len(text) : text[i] # COLON

NumPairs == (Len(trace) - 5) \div 2

PairsAsClaimed ==
    \A k \in 1..NumPairs :
        \/ trace[5 + 2 * k].kind = "loc"
        \/ LacksSpaceOrColon(trace[5 + 2 * k].text)

RECURSIVE ExpectedFrames(_)
ExpectedFrames(k) ==
    IF k = 0 THEN <<>>
    ELSE IF trace[5 + 2 * k].kind = "loc"
         THEN Append(ExpectedFrames(k - 1),
                     [Location |-> trace[5 + 2 * k].path,
                      Call |-> Render(trace[4 + 2 * k]),
                      Lineno |-> trace[5 + 2 * k].num.value])
         ELSE ExpectedFrames(k - 1)

C10_PairsToFrames ==
    (/\ spc = "done"
     /\ NumLines >= 7
     /\ NumLines % 2 = 0
     /\ PairsAsClaimed)
    => result = [panic |-> FALSE, frames |-> ExpectedFrames(NumPairs)]

C10_Witness ==
    /\ spc = "done"
    /\ NumLines = 10
    /\ trace[7].kind = "raw"
    /\ LacksSpaceOrColon(trace[7].text)
    /\ trace[9].kind = "loc"
    /\ Len(result.frames) = 1
    /\ result.frames[1].Call = Render(trace[8])

C10_WitnessTwoFrames ==
    /\ spc = "done"
    /\ NumLines = 10
    /\ trace[7].kind = "loc"
    /\ trace[9].kind = "loc"
    /\ trace[7] # trace[9]
    /\ Len(result.frames) = 2

====
